---- MODULE Spec2Model ----
(***************************************************************************)
(* secwebcam.py: a motion-sensing recorder.  The script keeps a ring       *)
(* buffer of the last maxframes frames, counts frames over the movement    *)
(* threshold, records frames (with the ring buffer as pre-roll) while      *)
(* there is movement, and writes the recorded frames to a video file when  *)
(* they reach maxsavedframes or when SIGINT arrives.                       *)
(*                                                                         *)
(* The main loop (lines 187-230) is modelled statement by statement: pc    *)
(* is the position of the main thread, and SIGINT, which Python delivers   *)
(* between two statements of the main thread, may arrive at any position.  *)
(***************************************************************************)
EXTENDS Integers, Sequences, FiniteSets, TLC

\* Number of iterations of the main loop that are explored.
MaxTicks == 4
\* Number of SIGINTs delivered in one run.
MaxSignals == 1

\* Values of the settings of lines 63-78 that are explored.
MaxframesValues == {1, 2}
ThresholdValues == {15}
ThresholdframesValues == {0, 1, 2}
MaxsavedframesValues == {1, 2, 4}

(***************************************************************************)
(* Frames.  A captured frame is an h x w array of BGR pixels; id is the    *)
(* identity of the array object (the order of capture).                    *)
(***************************************************************************)
Px(v) == [b |-> v, g |-> v, r |-> v]

Image(v) == [h |-> 2, w |-> 2, px |-> <<Px(v), Px(0), Px(0), Px(0)>>]

\* What the camera may deliver: a dark scene and two brighter ones.
Images == {Image(0), Image(15), Image(30)}

\* cv2.cvtColor(.., COLOR_BGR2GRAY): Y = 0.299 R + 0.587 G + 0.114 B, rounded.
Gray(p) == (299 * p.r + 587 * p.g + 114 * p.b + 500) \div 1000

\* cv2.subtract on 8-bit arrays saturates at 0.
Subtract(a, b) == IF a > b THEN a - b ELSE 0

RECURSIVE SumSeq(_)
SumSeq(s) == IF s = <<>> THEN 0 ELSE Head(s) + SumSeq(Tail(s))

\* framediff(frame1, frame2), on images of the same shape.
\* int(diff/((h/2)*(w/2))) is the truncation of 4*diff/(h*w).
framediff(frame1, frame2) ==
  LET diff == [i \in 1..Len(frame1.img.px) |->
                 Subtract(Gray(frame1.img.px[i]), Gray(frame2.img.px[i]))]
  IN (4 * SumSeq(diff)) \div (frame1.img.h * frame1.img.w)

VARIABLES
  maxframes, threshold, thresholdframes, maxsavedframes,  \* settings
  logging, diskcheck,                                     \* startup probes
  recording, savedframes, quietlen, framebuffer,          \* lines 86-89
  cooldown, thresholdframecount,                          \* lines 179-180
  frame,                                                  \* the frame last read
  pc,            \* position of the main thread
  inhandler,     \* TRUE once signal_handler is running
  camopen,       \* the capture device has not been released
  files,         \* the video files written, each a sequence of frames
  nsig,          \* SIGINTs delivered so far
  \* Observations of the run (not program state):
  prevframe,     \* the frame read before the current one
  highrun,       \* consecutive ticks at or over threshold while not recording
  lowrun,        \* consecutive ticks under threshold while recording
  sincestop,     \* ticks since the last stop of a recording, -1 if none
  started,       \* a recording started in this tick
  stopped,       \* a recording stopped in this tick
  nstarts,       \* recordings started so far
  sigat,         \* position of the main thread when SIGINT arrived
  startedat,     \* id of the frame of the tick of the last start, 0 if none
  fresh,         \* a recording started since savedframes was last emptied
  everhigh,      \* some tick so far scored at or over threshold
  disk,          \* what the last free-space check found
  lograised      \* a call of logwrite raised

config == <<maxframes, threshold, thresholdframes, maxsavedframes, logging, diskcheck>>
core == <<recording, savedframes, quietlen, framebuffer, cooldown, thresholdframecount>>
observed == <<prevframe, highrun, lowrun, sincestop, started, stopped, nstarts>>
traced == <<startedat, fresh, everhigh, disk, lograised>>
vars == <<config, core, frame, pc, inhandler, camopen, files, nsig, observed, sigat, traced>>

Terminated == pc \in {"exit0", "exit1", "crashed"}

\* The oldest frame of the buffer as the second argument of framediff.
BaselineOldest == framebuffer[1]

\* The score every condition of one tick computes (lines 194, 196, 210, 213).
Baseline == framebuffer[maxframes]

Score == framediff(frame, Baseline)

\* logwrite(msg) opens the log file again at each call: it returns, or raises.
LogOutcomes == IF logging THEN {"written", "raised"} ELSE {"skipped"}

(***************************************************************************)
(* Lines 63-123 and 179-183: the state when "Init complete." is printed.   *)
(***************************************************************************)
InitFramebuffer(n) ==
  {fb \in [1..n -> [id : 1..n, img : Images]] : \A i \in 1..n : fb[i].id = i}

Init ==
  /\ maxframes \in MaxframesValues
  /\ threshold \in ThresholdValues
  /\ \E tf \in ThresholdframesValues : thresholdframes = IF tf < 1 THEN 1 ELSE tf
  /\ maxsavedframes \in MaxsavedframesValues
  /\ logging \in BOOLEAN
  /\ diskcheck \in BOOLEAN
  /\ recording = FALSE
  /\ savedframes = <<>>
  /\ quietlen = 0
  /\ framebuffer \in InitFramebuffer(maxframes)
  /\ frame = framebuffer[maxframes]
  /\ cooldown = maxframes
  /\ thresholdframecount = 0
  /\ pc = "read"
  /\ inhandler = FALSE
  /\ camopen = TRUE
  /\ files = <<>>
  /\ nsig = 0
  /\ prevframe = frame
  /\ highrun = 0
  /\ lowrun = 0
  /\ sincestop = -1
  /\ started = FALSE
  /\ stopped = FALSE
  /\ nstarts = 0
  /\ sigat = "none"
  /\ startedat = 0
  /\ fresh = FALSE
  /\ everhigh = FALSE
  /\ disk = "none"
  /\ lograised = FALSE

(***************************************************************************)
(* The main loop, lines 187-230.                                           *)
(***************************************************************************)
\* Lines 188-191: read a frame, one of imgs, in the first limit iterations.
ReadFrom(imgs, limit) ==
  /\ pc = "read"
  /\ frame.id < maxframes + limit
  /\ \E img \in imgs : frame' = [id |-> frame.id + 1, img |-> img]
  /\ prevframe' = frame
  /\ sincestop' = IF sincestop < 0 THEN sincestop ELSE sincestop + 1
  /\ started' = FALSE
  /\ stopped' = FALSE
  /\ pc' = "count"
  /\ UNCHANGED <<config, core, inhandler, camopen, files, nsig, highrun, lowrun, nstarts,
                 sigat, traced>>

Read == ReadFrom(Images, MaxTicks)

\* Lines 194-197: count the consecutive frames over the threshold.
Count ==
  /\ pc = "count"
  /\ thresholdframecount' =
       IF recording = FALSE /\ thresholdframecount < thresholdframes /\ Score >= threshold
         THEN thresholdframecount + 1
       ELSE IF recording = FALSE /\ Score < threshold
         THEN 0
       ELSE thresholdframecount
  /\ highrun' = IF recording = FALSE /\ Score >= threshold THEN highrun + 1 ELSE 0
  /\ everhigh' = (everhigh \/ Score >= threshold)
  /\ pc' = "start"
  /\ UNCHANGED <<config, recording, savedframes, quietlen, framebuffer, cooldown,
                 frame, inhandler, camopen, files, nsig,
                 prevframe, lowrun, sincestop, started, stopped, nstarts, sigat,
                 startedat, fresh, disk, lograised>>

\* Line 199 without the cooldown condition.
StartGuardNoCooldown ==
  recording = FALSE /\ thresholdframecount >= thresholdframes

\* Line 199 with the count compared one too low.
StartGuardOffByOne ==
  recording = FALSE /\ cooldown >= maxframes /\ thresholdframecount >= thresholdframes - 1

\* Line 199.
StartGuard ==
  recording = FALSE /\ cooldown >= maxframes /\ thresholdframecount >= thresholdframes

\* Line 203 with the oldest frame of the buffer left out.
ExtendTail(saved, buffer) == saved \o Tail(buffer)

\* Line 203 with the pre-roll put in front of the frames already held.
ExtendFront(saved, buffer) == buffer \o saved

\* Line 203: savedframes.extend(framebuffer).
Extend(saved, buffer) == saved \o buffer

\* Lines 199-205: start recording.
Start ==
  /\ pc = "start"
  /\ IF StartGuard
       THEN \E out \in LogOutcomes :
              IF out = "raised"
                THEN /\ pc' = "crashed"
                     /\ lograised' = TRUE
                     /\ UNCHANGED <<savedframes, thresholdframecount, recording,
                                    lowrun, started, nstarts, startedat, fresh>>
                ELSE /\ savedframes' = Extend(savedframes, framebuffer)
                     /\ thresholdframecount' = 0
                     /\ recording' = TRUE
                     /\ lowrun' = 0
                     /\ started' = TRUE
                     /\ nstarts' = nstarts + 1
                     /\ startedat' = frame.id
                     /\ fresh' = TRUE
                     /\ pc' = "append"
                     /\ UNCHANGED lograised
       ELSE /\ pc' = "append"
            /\ UNCHANGED <<savedframes, thresholdframecount, recording, lowrun, started,
                           nstarts, startedat, fresh, lograised>>
  /\ UNCHANGED <<config, quietlen, framebuffer, cooldown, frame, inhandler, camopen,
                 files, nsig, prevframe, highrun, sincestop, stopped, sigat,
                 everhigh, disk>>

\* Lines 207-208: add the current frame to the recording.
AppendFrame ==
  /\ pc = "append"
  /\ savedframes' = IF recording = TRUE /\ quietlen < maxframes
                      THEN Append(savedframes, frame)
                      ELSE savedframes
  /\ pc' = "quiet"
  /\ UNCHANGED <<config, recording, quietlen, framebuffer, cooldown, thresholdframecount,
                 frame, inhandler, camopen, files, nsig, observed, sigat, traced>>

\* Lines 210-214: the length of the quiet period.
Quiet ==
  /\ pc = "quiet"
  /\ quietlen' =
       IF recording = TRUE /\ Score >= threshold /\ quietlen > 0
         THEN 0
       ELSE IF recording = TRUE /\ Score < threshold
         THEN quietlen + 1
       ELSE quietlen
  /\ lowrun' = IF recording = TRUE
                 THEN (IF Score < threshold THEN lowrun + 1 ELSE 0)
                 ELSE lowrun
  /\ pc' = "stop"
  /\ UNCHANGED <<config, recording, savedframes, framebuffer, cooldown,
                 thresholdframecount, frame, inhandler, camopen, files, nsig,
                 prevframe, highrun, sincestop, started, stopped, nstarts, sigat, traced>>

\* Line 216 with the comparison one too high.
StopGuardLate == quietlen > maxframes /\ recording = TRUE

\* Line 216.
StopGuard == quietlen > maxframes - 1 /\ recording = TRUE

\* Lines 216-221 with the recording thrown away at the stop.
StopClearing ==
  /\ pc = "stop"
  /\ IF StopGuard
       THEN \E out \in LogOutcomes :
              IF out = "raised"
                THEN /\ pc' = "crashed"
                     /\ lograised' = TRUE
                     /\ UNCHANGED <<recording, cooldown, sincestop, stopped, savedframes>>
                ELSE /\ recording' = FALSE
                     /\ cooldown' = 0
                     /\ sincestop' = 0
                     /\ stopped' = TRUE
                     /\ savedframes' = <<>>
                     /\ pc' = "cool"
                     /\ UNCHANGED lograised
       ELSE /\ pc' = "cool"
            /\ UNCHANGED <<recording, cooldown, sincestop, stopped, lograised, savedframes>>
  /\ UNCHANGED <<config, quietlen, framebuffer, thresholdframecount, frame,
                 inhandler, camopen, files, nsig, prevframe, highrun, lowrun, started,
                 nstarts, sigat, startedat, fresh, everhigh, disk>>

\* Lines 216-221: stop recording and start the cooldown.
Stop ==
  /\ pc = "stop"
  /\ IF StopGuard
       THEN \E out \in LogOutcomes :
              IF out = "raised"
                THEN /\ pc' = "crashed"
                     /\ lograised' = TRUE
                     /\ UNCHANGED <<recording, cooldown, sincestop, stopped>>
                ELSE /\ recording' = FALSE
                     /\ cooldown' = 0
                     /\ sincestop' = 0
                     /\ stopped' = TRUE
                     /\ pc' = "cool"
                     /\ UNCHANGED lograised
       ELSE /\ pc' = "cool"
            /\ UNCHANGED <<recording, cooldown, sincestop, stopped, lograised>>
  /\ UNCHANGED <<config, savedframes, quietlen, framebuffer, thresholdframecount, frame,
                 inhandler, camopen, files, nsig, prevframe, highrun, lowrun, started,
                 nstarts, sigat, startedat, fresh, everhigh, disk>>

\* Lines 222-223: the cooldown advances.
Cool ==
  /\ pc = "cool"
  /\ cooldown' = IF recording = FALSE /\ cooldown < maxframes
                   THEN cooldown + 1
                   ELSE cooldown
  /\ pc' = "ring"
  /\ UNCHANGED <<config, recording, savedframes, quietlen, framebuffer,
                 thresholdframecount, frame, inhandler, camopen, files, nsig, observed,
                 sigat, traced>>

\* Lines 226-227 with pop() for pop(0): the newest frame is dropped.
ShiftNewest(buffer, f) == Append(SubSeq(buffer, 1, Len(buffer) - 1), f)

\* Lines 226-227: framebuffer.pop(0); framebuffer.append(frame).
Shift(buffer, f) == Append(Tail(buffer), f)

Ring ==
  /\ pc = "ring"
  /\ framebuffer' = Shift(framebuffer, frame)
  /\ pc' = "flush"
  /\ UNCHANGED <<config, recording, savedframes, quietlen, cooldown, thresholdframecount,
                 frame, inhandler, camopen, files, nsig, observed, sigat, traced>>

\* Line 229 with the comparison one too high.
FlushGuardLate == Len(savedframes) > maxsavedframes

\* Line 229.
FlushGuard == Len(savedframes) > maxsavedframes - 1

\* Lines 229-230: save when the recording has reached maxsavedframes.
Flush ==
  /\ pc = "flush"
  /\ pc' = IF FlushGuard THEN "save_check" ELSE "read"
  /\ UNCHANGED <<config, core, frame, inhandler, camopen, files, nsig, observed, sigat, traced>>

(***************************************************************************)
(* savetofile(), lines 142-169, called by the main loop (line 230) and by  *)
(* signal_handler (line 173).                                              *)
(***************************************************************************)
\* Line 150: the free space is what the file system reports at that moment.
DiskOutcomes == IF diskcheck THEN {"enough", "low"} ELSE {"unchecked"}

\* A free-space check whose result is not acted on: the write goes ahead.
SaveCheckIgnored ==
  /\ pc = "save_check"
  /\ \E found \in DiskOutcomes : disk' = found
  /\ pc' = "save_write"
  /\ UNCHANGED <<config, core, frame, inhandler, camopen, files, nsig, observed,
                 sigat, startedat, fresh, everhigh, lograised>>

\* Lines 146-157: the free-space check.
SaveCheck ==
  /\ pc = "save_check"
  /\ \E found \in DiskOutcomes :
       /\ disk' = found
       /\ IF found = "low"
            THEN /\ camopen' = FALSE
                 /\ \E out \in LogOutcomes :
                      /\ pc' = IF out = "raised" THEN "crashed" ELSE "exit1"
                      /\ lograised' = (out = "raised")
            ELSE /\ pc' = "save_write"
                 /\ UNCHANGED <<camopen, lograised>>
  /\ UNCHANGED <<config, core, frame, inhandler, files, nsig, observed, sigat,
                 startedat, fresh, everhigh>>

\* Lines 158-168: write the frames to a new file.  savedframes[0] raises
\* IndexError when there is no frame.
SaveWrite ==
  /\ pc = "save_write"
  /\ IF savedframes = <<>>
       THEN /\ pc' = "crashed"
            /\ UNCHANGED <<files, lograised>>
       ELSE /\ files' = Append(files, savedframes)
            /\ \E out \in LogOutcomes :
                 /\ pc' = IF out = "raised" THEN "crashed" ELSE "save_clear"
                 /\ lograised' = (out = "raised")
  /\ UNCHANGED <<config, core, frame, inhandler, camopen, nsig, observed, sigat,
                 startedat, fresh, everhigh, disk>>

\* Line 169, and the return to the caller.
SaveClear ==
  /\ pc = "save_clear"
  /\ savedframes' = <<>>
  /\ fresh' = FALSE
  /\ pc' = IF inhandler THEN "release" ELSE "read"
  /\ UNCHANGED <<config, recording, quietlen, framebuffer, cooldown, thresholdframecount,
                 frame, inhandler, camopen, files, nsig, observed, sigat,
                 startedat, everhigh, disk, lograised>>

(***************************************************************************)
(* signal_handler, lines 172-177.  Python runs it in the main thread,      *)
(* between two statements of whatever the thread is executing; it never    *)
(* returns to the interrupted statement, because it ends in sys.exit or    *)
(* in an exception.                                                        *)
(***************************************************************************)
\* SIGINT arrives; line 173 calls savetofile().
Sigint ==
  /\ ~Terminated
  /\ nsig < MaxSignals
  /\ nsig' = nsig + 1
  /\ inhandler' = TRUE
  /\ sigat' = pc
  /\ pc' = "save_check"
  /\ UNCHANGED <<config, core, frame, camopen, files, observed, traced>>

\* Line 174: cam.release().
Release ==
  /\ pc = "release"
  /\ camopen' = FALSE
  /\ pc' = "exit"
  /\ UNCHANGED <<config, core, frame, inhandler, files, nsig, observed, sigat, traced>>

\* Line 175: sys.exit(0).
Exit ==
  /\ pc = "exit"
  /\ pc' = "exit0"
  /\ UNCHANGED <<config, core, frame, inhandler, camopen, files, nsig, observed, sigat, traced>>

Next ==
  \/ Read
  \/ Count
  \/ Start
  \/ AppendFrame
  \/ Quiet
  \/ Stop
  \/ Cool
  \/ Ring
  \/ Flush
  \/ SaveCheck
  \/ SaveWrite
  \/ SaveClear
  \/ Sigint
  \/ Release
  \/ Exit

Spec == Init /\ [][Next]_vars

(***************************************************************************)
(* Properties.                                                             *)
(***************************************************************************)
\* The tick the main loop is executing (1 for the first iteration).
Tick == frame.id - maxframes

\* C1: with thresholdframes = k, a recording starts on a tick exactly when
\* the machine was idle, the tick is at least the k-th of a run of
\* consecutive ticks with score >= threshold and cooldown >= maxframes; so it
\* starts on the k-th such tick when the cooldown is over, never earlier, and
\* never on a tick whose score is below the threshold.  (pc = "append" is the
\* position right after the start-recording statement of lines 199-205.)
C1_StartOnKthTick ==
  pc = "append" =>
    /\ started =>
         /\ highrun >= thresholdframes
         /\ cooldown >= maxframes
         /\ Score >= threshold
         /\ recording = TRUE
    /\ (~started /\ recording = FALSE) =>
         ~(highrun >= thresholdframes /\ cooldown >= maxframes)

\* C1 witness: two consecutive ticks over the threshold start a recording on
\* the second one when thresholdframes = 2.
C1_Witness ==
  /\ pc = "append"
  /\ started
  /\ thresholdframes = 2
  /\ highrun = 2
  /\ Tick = 2

\* C2: a recording stops on the tick on which the consecutive ticks below
\* the threshold seen while recording reach maxframes, not earlier and not
\* later, in the first and in every later recording, and cooldown is 0 right
\* after the stop statement.  (pc = "cool" is the position right after the
\* stop-recording statement of lines 216-221.)
C2_StopAfterMaxframesQuiet ==
  pc = "cool" =>
    /\ stopped => (lowrun = maxframes /\ cooldown = 0 /\ recording = FALSE)
    /\ recording = TRUE => lowrun < maxframes

\* C2 witness: the second recording of a run stops.
C2_Witness ==
  /\ pc = "cool"
  /\ stopped
  /\ nstarts = 2
  /\ lowrun = maxframes

\* C3 (as stated): when a recording starts, the recorded frames begin with
\* the maxframes frames of the frame buffer, oldest first.
C3_PrerollIsPrefix ==
  (pc = "append" /\ started) =>
    /\ Len(savedframes) >= maxframes
    /\ SubSeq(savedframes, 1, maxframes) = framebuffer

\* C3 (amended): when a recording starts, the frames of the frame buffer are
\* added, oldest first, after the frames savedframes already holds; they are
\* its first maxframes entries only when it held none.
C3_PrerollAppended ==
  [][(pc = "start" /\ started') => savedframes' = savedframes \o framebuffer]_vars

\* C3 witness: a second recording starts while the frames of the first one
\* are still in savedframes (no file was written in between).
C3_Witness ==
  /\ pc = "append"
  /\ started
  /\ nstarts = 2
  /\ files = <<>>
  /\ Len(savedframes) > maxframes

\* C4: the main loop calls savetofile at the end of a tick exactly when
\* savedframes holds maxsavedframes frames or more, whether or not it is
\* recording; the call is never made with no frame, a completed call has
\* written the frames and leaves savedframes empty, and at every start of a
\* tick savedframes holds fewer than maxsavedframes frames.
C4_FlushAtMaxsavedframes ==
  /\ [](pc = "read" => Len(savedframes) < maxsavedframes)
  /\ []((pc \in {"save_check", "save_write"} /\ ~inhandler) =>
          (savedframes # <<>> /\ Len(savedframes) >= maxsavedframes))
  /\ []((pc = "save_clear" /\ ~inhandler) => files[Len(files)] = savedframes)
  /\ [][(pc = "flush" /\ nsig' = nsig) =>
          ((pc' = "save_check") <=> (Len(savedframes) >= maxsavedframes))]_vars
  /\ [][(pc = "save_clear" /\ nsig' = nsig /\ ~inhandler) =>
          (savedframes' = <<>> /\ pc' = "read")]_vars

\* C4 witness: the main loop has written a file while not recording.
C4_Witness ==
  /\ pc = "save_clear"
  /\ ~inhandler
  /\ recording = FALSE
  /\ Len(savedframes) >= maxsavedframes

\* C5: every file holds at most maxsavedframes frames (in runs in which
\* SIGINT, if it arrives, arrives between two ticks).
C5_FileAtMostMaxsavedframes ==
  (inhandler => sigat = "read") =>
    \A i \in 1..Len(files) : Len(files[i]) <= maxsavedframes

\* Positions of a tick at which the score is still to be computed.
Scoring == pc \in {"count", "start", "append", "quiet"}

\* C6 (as stated): the score of a tick compares the new frame with the
\* oldest frame of the frame buffer.
C6_BaselineIsOldest ==
  Scoring => (Baseline = Head(framebuffer) /\ Score = framediff(frame, Head(framebuffer)))

\* C6 (amended): the score of a tick compares the new frame with the newest
\* frame of the frame buffer, which is the frame read on the previous tick;
\* it is the oldest one only when maxframes = 1.
C6_BaselineIsPreviousFrame ==
  Scoring =>
    /\ Baseline = prevframe
    /\ Baseline.id = frame.id - 1
    /\ Score = framediff(frame, prevframe)
    /\ maxframes > 1 => Baseline # Head(framebuffer)

\* C6 witness: a tick whose score is over the threshold against the previous
\* frame and under it against the oldest frame of the buffer.
C6_Witness ==
  /\ pc = "count"
  /\ maxframes = 2
  /\ Score >= threshold
  /\ framediff(frame, Head(framebuffer)) < threshold

\* The main thread is between the frame buffer update of one tick and the
\* read of the next.
AfterRing == pc \in {"flush", "read"} \/ (pc \in {"save_check", "save_write", "save_clear"} /\ ~inhandler)

\* The main thread is between the read and the frame buffer update of a tick.
BeforeRing == pc \in {"count", "start", "append", "quiet", "stop", "cool", "ring"}

\* C7: the frame buffer always holds maxframes frames; only the update at
\* the end of a tick changes it, by dropping its oldest frame and adding the
\* frame of the tick at the end; so it holds the last maxframes frames read,
\* in the order they were read.
C7_RingBufferLastMaxframes ==
  /\ [](Len(framebuffer) = maxframes)
  /\ [](AfterRing =>
          /\ framebuffer[maxframes] = frame
          /\ \A i \in 1..maxframes : framebuffer[i].id = frame.id - maxframes + i)
  /\ [](BeforeRing =>
          /\ framebuffer[maxframes] = prevframe
          /\ \A i \in 1..maxframes : framebuffer[i].id = frame.id - 1 - maxframes + i)
  /\ [][IF pc = "ring" /\ pc' = "flush"
          THEN framebuffer' = Tail(framebuffer) \o <<frame>>
          ELSE framebuffer' = framebuffer]_vars

\* C7 witness: the third tick of a run with maxframes = 2 ends after a file
\* was written and while recording.
C7_Witness ==
  /\ pc = "read"
  /\ maxframes = 2
  /\ Tick = 3
  /\ files # <<>>
  /\ recording = TRUE

\* C8: a SIGINT handled between two ticks, with the log and the disk check
\* out of the picture, ends with the frames written if there were any, the
\* capture device released and exit status 0.
C8_ShutdownFlushesAndExits ==
  (inhandler /\ sigat = "read" /\ Terminated /\ ~logging /\ ~diskcheck) =>
    (pc = "exit0" /\ ~camopen /\ savedframes = <<>>)

\* C9: the file written for a SIGINT is never the file the main loop has
\* just written: no batch of frames is handed to the sink twice.
C9_NoBatchHandedTwice ==
  (inhandler /\ pc = "save_clear" /\ Len(files) >= 2) =>
    files[Len(files)] # files[Len(files) - 1]

\* C10: a recording starts only on a tick on which cooldown >= maxframes,
\* and after a recording stopped on tick T none starts before tick
\* T + maxframes.
C10_CooldownBeforeRestart ==
  (pc = "append" /\ started) =>
    /\ cooldown >= maxframes
    /\ sincestop = -1 \/ sincestop >= maxframes

\* C10 witness: a recording starts exactly maxframes ticks after the
\* previous one stopped.
C10_Witness ==
  /\ pc = "append"
  /\ started
  /\ sincestop = maxframes

\* The batch b holds the pre-roll of the last start (the maxframes frames
\* read before the tick of the start, oldest first), and after it only frames
\* of that recording.
HasPreroll(b) ==
  /\ startedat > 0
  /\ \E k \in 0..(Len(b) - maxframes) :
       /\ \A i \in 1..maxframes : b[k + i].id = startedat - maxframes - 1 + i
       /\ \A j \in (k + maxframes + 1)..Len(b) : b[j].id >= startedat

\* The batch b holds only frames read in or after the tick of the last start.
OnlyRecorded(b) == startedat > 0 /\ \A j \in 1..Len(b) : b[j].id >= startedat

\* C11 (as stated): every file written holds maxframes pre-roll frames ahead
\* of the frames of the motion it records (in runs in which SIGINT, if it
\* arrives, arrives between two ticks).
C11_EveryBatchHasPreroll ==
  (pc = "save_clear" /\ (inhandler => sigat = "read")) =>
    HasPreroll(files[Len(files)])

\* C11 (amended): a file written holds the maxframes pre-roll frames of a
\* recording, ahead of its frames, when that recording started since the
\* previous flush; a file that continues a recording after a flush holds
\* only frames of that recording and no pre-roll.
C11_PrerollOnlyWithStart ==
  pc = "save_clear" =>
    IF fresh THEN HasPreroll(files[Len(files)])
             ELSE OnlyRecorded(files[Len(files)]) /\ ~HasPreroll(files[Len(files)])

\* C11 witness: the main loop writes a file, while recording, that continues
\* a recording after an earlier flush.
C11_Witness ==
  /\ pc = "save_clear"
  /\ ~inhandler
  /\ ~fresh
  /\ recording = TRUE
  /\ Len(files) >= 2

\* C12: as long as every tick has scored below the threshold, the machine
\* has never recorded: recording is False, thresholdframecount is 0 and no
\* frame is held or was written.
C12_QuietNeverRecords ==
  ~everhigh =>
    /\ recording = FALSE
    /\ thresholdframecount = 0
    /\ savedframes = <<>>
    /\ files = <<>>
    /\ nstarts = 0

\* C12 witness: four ticks below the threshold have completed.
C12_Witness ==
  /\ ~everhigh
  /\ pc = "read"
  /\ Tick = 4

(***************************************************************************)
(* The run of section 8 of the design: maxframes = 3, threshold = 10,      *)
(* thresholdframes = 2, and frames whose scores are 12, 1, 15, 15, 1, 1, 1.*)
(***************************************************************************)
ScenarioScores == <<12, 1, 15, 15, 1, 1, 1>>

\* The frame of tick t: each frame is brighter than the one before by the
\* score of its tick (the frames before the first tick are dark).
ScenarioImage(t) == Image(SumSeq(SubSeq(ScenarioScores, 1, t)))

InitScenario ==
  /\ maxframes = 3
  /\ threshold = 10
  /\ thresholdframes = 2
  /\ maxsavedframes \in {8, 1000}
  /\ logging \in BOOLEAN
  /\ diskcheck \in BOOLEAN
  /\ recording = FALSE
  /\ savedframes = <<>>
  /\ quietlen = 0
  /\ framebuffer = [i \in 1..maxframes |-> [id |-> i, img |-> Image(0)]]
  /\ frame = framebuffer[maxframes]
  /\ cooldown = maxframes
  /\ thresholdframecount = 0
  /\ pc = "read"
  /\ inhandler = FALSE
  /\ camopen = TRUE
  /\ files = <<>>
  /\ nsig = 0
  /\ prevframe = frame
  /\ highrun = 0
  /\ lowrun = 0
  /\ sincestop = -1
  /\ started = FALSE
  /\ stopped = FALSE
  /\ nstarts = 0
  /\ sigat = "none"
  /\ startedat = 0
  /\ fresh = FALSE
  /\ everhigh = FALSE
  /\ disk = "none"
  /\ lograised = FALSE

ReadScenario == ReadFrom({ScenarioImage(Tick + 1)}, Len(ScenarioScores))

NextScenario ==
  \/ ReadScenario
  \/ Count
  \/ Start
  \/ AppendFrame
  \/ Quiet
  \/ Stop
  \/ Cool
  \/ Ring
  \/ Flush
  \/ SaveCheck
  \/ SaveWrite
  \/ SaveClear
  \/ Sigint
  \/ Release
  \/ Exit

SpecScenario == InitScenario /\ [][NextScenario]_vars

\* C13: in that run the scores are the ones given, no recording starts at
\* tick 3, one starts at tick 4 and at no other tick, it stops at tick 7,
\* and after tick 7 savedframes holds the three frames read before tick 4
\* followed by the frames of ticks 4 to 7.
C13_ScenarioTrace ==
  /\ BeforeRing => Score = ScenarioScores[Tick]
  /\ (pc = "append" /\ Tick = 3) => (~started /\ recording = FALSE /\ nstarts = 0)
  /\ (pc = "append" /\ Tick = 4) => started
  /\ started => Tick = 4
  /\ nstarts <= 1
  /\ (pc = "cool" /\ Tick = 7) => stopped
  /\ stopped => Tick = 7
  /\ (pc \in {"flush", "read"} /\ Tick = 7) =>
       /\ recording = FALSE
       /\ files = <<>>
       /\ Len(savedframes) = 7
       /\ \A i \in 1..7 : savedframes[i] = [id |-> maxframes + i, img |-> ScenarioImage(i)]

\* C13 witness: the seventh tick has completed and the recording has stopped.
C13_Witness ==
  /\ pc = "read"
  /\ Tick = 7
  /\ stopped
  /\ Len(savedframes) = 7

(***************************************************************************)
(* C14: when diskcheck is enabled and the free space found by savetofile() *)
(* is below minfreespace, the step that finds it writes no file, the       *)
(* camera is released and the process ends with a failure status (exit(1), *)
(* or the traceback of a logwrite that raised after the release); exit(1)  *)
(* has no other cause.  The same holds in the main loop's flush and in     *)
(* signal_handler's.                                                       *)
(***************************************************************************)
C14_LowDiskIsFatal ==
  /\ [](disk = "low" => diskcheck /\ ~camopen /\ pc \in {"exit1", "crashed"})
  /\ [](pc = "exit1" => disk = "low")
  /\ [][disk' = "low" => pc = "save_check" /\ files' = files]_vars

C14_Witness ==
  disk = "low" /\ pc = "exit1" /\ ~inhandler /\ savedframes # <<>> /\ ~camopen

C14_WitnessShutdown ==
  disk = "low" /\ pc = "exit1" /\ inhandler /\ savedframes # <<>> /\ ~camopen

(***************************************************************************)
(* C15: a logwrite that fails at a start, a stop or a flush does not stop  *)
(* the tick loop: the run goes on as if the line had been written.         *)
(***************************************************************************)
C15_LogFailureSwallowed ==
  (lograised /\ disk # "low") => pc # "crashed"

(***************************************************************************)
(* C16: framediff is symmetric: the score of the frame read against the    *)
(* frame it is compared with equals the score with the arguments swapped.  *)
(***************************************************************************)
C16_FramediffSymmetric ==
  pc = "count" => framediff(frame, Baseline) = framediff(Baseline, frame)

(***************************************************************************)
(* C17: the stop at lines 216-221 leaves savedframes and the files as they *)
(* are; savedframes changes only by growing at a start or an append that   *)
(* leaves the program recording, or by the clear that ends savetofile()    *)
(* after the frames were written; and the main loop calls savetofile()     *)
(* only in a tick that is recording or has just stopped, so a tick that is *)
(* idle from its first statement to its last changes nothing.              *)
(***************************************************************************)
IsPrefix(s, t) == Len(s) <= Len(t) /\ SubSeq(t, 1, Len(s)) = s

InSave == pc \in {"save_check", "save_write", "save_clear"}

C17_StopKeepsSavedframes ==
  /\ [][pc = "stop" => savedframes' = savedframes /\ files' = files]_vars
  /\ [][savedframes' # savedframes =>
          \/ /\ pc = "save_clear"
             /\ savedframes' = <<>>
             /\ files # <<>>
             /\ files[Len(files)] = savedframes
          \/ /\ pc \in {"start", "append"}
             /\ recording' = TRUE
             /\ IsPrefix(savedframes, savedframes')]_vars
  /\ []((InSave /\ ~inhandler) => (recording = TRUE \/ stopped))

C17_Witness ==
  /\ pc = "flush"
  /\ ~inhandler
  /\ recording = FALSE
  /\ sincestop >= 1
  /\ savedframes # <<>>

(***************************************************************************)
(* C18: in every tick that starts a recording, the frame that triggered    *)
(* the start is appended after the pre-roll: when line 208 has been        *)
(* passed, savedframes ends with the maxframes frames of the frame buffer  *)
(* followed by the current frame.                                          *)
(***************************************************************************)
C18_TriggerFrameAppended ==
  (pc = "quiet" /\ started) =>
    /\ Len(savedframes) >= maxframes + 1
    /\ savedframes[Len(savedframes)] = frame
    /\ SubSeq(savedframes, Len(savedframes) - maxframes, Len(savedframes) - 1) = framebuffer

(***************************************************************************)
(* C19: in a run of the main loop without a signal, no frame read from the *)
(* camera is stored twice: at the top of each iteration the files written  *)
(* so far followed by savedframes hold each frame at most once.            *)
(***************************************************************************)
RECURSIVE Concat(_)
Concat(batches) ==
  IF batches = <<>> THEN <<>> ELSE Head(batches) \o Concat(Tail(batches))

Stored == Concat(files) \o savedframes

C19_NoFrameStoredTwice ==
  (nsig = 0 /\ pc = "read") =>
    \A i, j \in 1..Len(Stored) : Stored[i].id = Stored[j].id => i = j

(***************************************************************************)
(* C20: at the top of every iteration of the main loop the three counters  *)
(* are within their ranges, 0 <= thresholdframecount <= thresholdframes,   *)
(* 0 <= quietlen <= maxframes and 0 <= cooldown <= maxframes, and while    *)
(* recording cooldown = maxframes, thresholdframecount = 0 and             *)
(* quietlen < maxframes.                                                   *)
(***************************************************************************)
C20_CounterRanges ==
  pc = "read" =>
    /\ thresholdframecount \in 0..thresholdframes
    /\ quietlen \in 0..maxframes
    /\ cooldown \in 0..maxframes
    /\ recording = TRUE =>
         /\ cooldown = maxframes
         /\ thresholdframecount = 0
         /\ quietlen < maxframes

C20_Witness ==
  /\ pc = "read"
  /\ recording = TRUE
  /\ nstarts = 2
  /\ Tick >= 3

====
